---- MODULE Spec2Model ----
(***************************************************************************)
(* Conversation state machine of the Canada Basketball scouting agent.     *)
(*                                                                         *)
(* One session (one thread_id) is modelled.  A turn is one call of         *)
(* event_generator (app/services/agent_service.py): it hands either a new  *)
(* human message or Command(resume=value) to graph.astream, which runs the *)
(* nodes wired up in build_graph (graph/graph.py) one after another, and   *)
(* checkpoints the state after every node.                                 *)
(*                                                                         *)
(* interrupt() is LangGraph's primitive: the first time a node reaches an  *)
(* interrupt() call without an answer it raises GraphInterrupt, the turn   *)
(* ends and the node stays pending.  On Command(resume=v) the pending node *)
(* is executed again FROM ITS FIRST LINE; the answers already given are    *)
(* replayed to the interrupt() calls in call order and v is handed to the  *)
(* first interrupt() call that has no answer yet.                          *)
(*                                                                         *)
(* Nothing of a session lives in the process between two turns: lifespan   *)
(* (app/main.py) rebuilds the graph on start and every turn reads the      *)
(* session from the checkpoint store.  A process restart between two turns *)
(* therefore changes no variable of this model; it is a stuttering step.   *)
(*                                                                         *)
(* The collaborators of the nodes (the classifier, the SQL agent and the   *)
(* database, the player search, the HTTP client, the analysis agent, the   *)
(* PDF renderer, the bucket, the file copy, the text model) are calls that *)
(* may succeed or raise; every call a node makes is logged in calls with   *)
(* its outcome.  The construction of the model clients (get_router_llm,    *)
(* get_llm) and the removal of the temporary PDF are taken to succeed.     *)
(***************************************************************************)
EXTENDS Integers, Sequences, FiniteSets, TLC

VARIABLES
    state,           \* AgentState of the session (the checkpointed channels)
    chat_input,      \* ChatInput of the turn being served
    running,         \* TRUE while graph.astream of a turn is executing
    next_node,       \* node the engine executes next, "END" when none
    pending,         \* the interrupt the session is suspended at
    resume_values,   \* answers already consumed by the pending node's interrupt() calls
    null_resume,     \* the value of Command(resume=...) not yet handed to an interrupt()
    steps,           \* node executions started in the current turn
    events,          \* NDJSON events yielded in the current turn
    turn_end,        \* how the last turn ended
    turns,           \* turns served so far
    confirm_locals,  \* local variables of confirm_scouting_report's execution in this turn
    search_calls,    \* search_players calls since the scouting flow started
    scout_runs,      \* scout executions since the last fresh message
    calls,           \* calls to external collaborators made in this turn, with their outcomes
    error_texts,     \* error texts carried by the events of this turn
    exception,       \* the exception handed to _get_error_message
    error_message,   \* what _get_error_message returned for it
    requests,        \* the /api/agent/chat requests being served, each with its session
    checkpoint_writes, \* per session, the requests that wrote a checkpoint, in write order
    _db_cache,       \* stats_lookup._db_cache: the leagues with a cached connection
    league_db,       \* the league database: the number of changes made to it
    league_db_alone, \* per session, the database had only that session's turns run
    executed,        \* the statements stats_lookup ran with db.run
    streams,         \* per session, the rows its turns streamed
    streams_alone,   \* per session, the rows streamed had only its turns run
    gcs_path,        \* the path handed to delete_pdf_from_gcs
    gcs_io,          \* how the storage client behaves during the call
    gcs_blobs,       \* the blobs stored in the buckets
    gcs_calls,       \* the storage calls delete_pdf_from_gcs made
    deleted          \* what delete_pdf_from_gcs returned

vars == << state, chat_input, running, next_node, pending, resume_values,
           null_resume, steps, events, turn_end, turns, confirm_locals,
           search_calls, scout_runs, calls, error_texts >>

\* the variables of the helper functions exercised on their own
error_message_vars == << exception, error_message >>
sessions_vars == << requests, checkpoint_writes, _db_cache, league_db, league_db_alone,
                   executed, streams, streams_alone >>
gcs_vars == << gcs_path, gcs_io, gcs_blobs, gcs_calls, deleted >>
aux_vars == << error_message_vars, sessions_vars, gcs_vars >>

all_vars == << vars, aux_vars >>

----------------------------------------------------------------------------
(* Bounds of the model *)

MaxTurns == 4
MaxPlayers == 2
MaxRequests == 2

----------------------------------------------------------------------------
(* Constants of the program *)

INTENT_STATS_QUERY == "stats_query"
INTENT_SCOUTING_REPORT == "scouting_report"
INTENT_TEXT_RESPONSE == "text_response"
INTENT_EXTRACT_PLAYER == "extract_player_from_results"
INTENT_CONTINUE_CHAIN == "continue_chain"
INTENT_TERMINATE == "terminate"

NODE_ROUTER == "router"
NODE_STATS_LOOKUP == "stats_lookup"
NODE_CONFIRM_SCOUTING == "confirm_scouting_report"
NODE_SCOUT == "scout"
NODE_GENERATE_RESPONSE == "generate_response"
END == "END"

INTERRUPT_PLAYER_SELECTION_SCOUTING == "player_selection_for_scouting"
INTERRUPT_SCOUTING_CONFIRMATION == "scouting_confirmation"

RESPONSE_TYPE_TEXT == "text_response"
RESPONSE_TYPE_QUERY_RESULT == "query_result"
RESPONSE_TYPE_SCOUTING_PLAN == "scouting_report_plan"

recursion_limit == 50

None == "None"

\* graph/state.py IntentType: every value the intent field is typed to hold
IntentType == { INTENT_STATS_QUERY, INTENT_SCOUTING_REPORT, INTENT_TEXT_RESPONSE,
                INTENT_EXTRACT_PLAYER, INTENT_CONTINUE_CHAIN, INTENT_TERMINATE }

\* graph/nodes/router.py RouterOutput.intent: what the classifier may return
RouterIntentType == { INTENT_STATS_QUERY, INTENT_SCOUTING_REPORT,
                      INTENT_TEXT_RESPONSE, INTENT_TERMINATE }

\* graph/nodes/router.py LeagueType, two of its four values
LeagueType == { "CEBL", "U SPORTS" }

\* RouterOutput.query_context values the classifier returns
QueryContexts == { None }

InterruptType == { INTERRUPT_PLAYER_SELECTION_SCOUTING, INTERRUPT_SCOUTING_CONFIRMATION }

Nodes == { NODE_ROUTER, NODE_STATS_LOOKUP, NODE_CONFIRM_SCOUTING, NODE_SCOUT,
           NODE_GENERATE_RESPONSE }

----------------------------------------------------------------------------
(* Python values of ChatInput.user_input: str | int | bool.                *)
(* t is the Python type; v is the integer value of an int, 1/0 for         *)
(* True/False (bool is a subclass of int), and the length of a str.        *)

IntVal(n) == [t |-> "int", v |-> n]
BoolVal(b) == [t |-> "bool", v |-> IF b THEN 1 ELSE 0]
StrVal(n) == [t |-> "str", v |-> n]
NoValue == [t |-> "none", v |-> 0]

\* the resume payloads a caller sends: integers below -n, negative, in range
\* and >= n for every candidate list of the model, both booleans, "" and "yes"
ResumeInts == { -(MaxPlayers + 1), -1, 0, 1, MaxPlayers }
ResumeValues == { IntVal(n) : n \in ResumeInts } \cup { BoolVal(TRUE), BoolVal(FALSE) }
                    \cup { StrVal(0), StrVal(3) }

\* the payloads sent while nothing is suspended, which no interrupt() receives
StrayResumeValues == { IntVal(0), BoolVal(TRUE) }

\* isinstance(x, int)
isinstance_int(x) == x.t \in {"int", "bool"}

\* bool(x): zero, False and the empty string are falsy
Truthy(x) == x.v # 0

----------------------------------------------------------------------------
(* The player database as search_players sees it *)

Players == 1 .. MaxPlayers

\* str(selected_player["player_id"])
player_id_of(p) == ToString(p)
full_name_of(p) == "Player " \o ToString(p)
league_of(p) == IF p % 2 = 1 THEN "CEBL" ELSE "U SPORTS"

\* ranked result lists of one search_players call: the n best matches in
\* one ranking or in the opposite one, so that two calls can differ in
\* length and in the player found at a position
Ranked(n) == [i \in 1 .. n |-> i]
RankedReverse(n) == [i \in 1 .. n |-> MaxPlayers + 1 - i]

SearchResultLists == { Ranked(n) : n \in 0 .. MaxPlayers }
                         \cup { RankedReverse(n) : n \in 0 .. MaxPlayers }

----------------------------------------------------------------------------
(* AgentState *)

\* entities is read with .get() only, so None, a missing key and a key bound
\* to None are the same value to every reader
NoEntities == [player_name |-> None, league |-> None, season |-> None, query_context |-> None]

\* state.get("scouting_report_confirmed", False): an absent key reads as False
InitialState ==
    [ messages |-> << >>,
      user_query |-> None,
      intent |-> None,
      entities |-> NoEntities,
      player_id |-> None,
      player_name |-> None,
      league |-> None,
      query_result |-> None,
      scouting_report_confirmed |-> FALSE,
      scouting_report |-> None,
      pdf_url |-> None,
      error |-> None,
      routing_iteration |-> 0,
      response |-> [response_type |-> None, main_response |-> None] ]

NoPending == [type |-> None, search_results |-> << >>, player |-> 0]
NoLocals == [exit |-> None, search_results |-> << >>, user_selection |-> NoValue,
             user_confirmed |-> NoValue, selected |-> 0]

Event(node, itype) == [node |-> node, itype |-> itype]

\* one call of a node to an external collaborator and how it ended
Call(node, callee, result) == [node |-> node, call |-> callee, result |-> result]

----------------------------------------------------------------------------
(* messages: Annotated[Sequence[BaseMessage], add_messages].  The reducer   *)
(* appends the messages of an update to the ones in the state and gives    *)
(* each new message an id of its own; types lists the new messages.        *)

add_messages_overwrite(left, types) ==
    [i \in 1 .. Len(types) |-> [type |-> types[i], id |-> i]]

add_messages(left, types) ==
    left \o [i \in 1 .. Len(types) |-> [type |-> types[i], id |-> Len(left) + i]]

----------------------------------------------------------------------------
(* Exceptions and _get_error_message *)

ERROR_EXPIRED_TOKEN == "LLM credentials have expired."
ERROR_CONNECTION == "Connection error occurred."
ERROR_TIMEOUT == "Request timed out."
ERROR_RATE_LIMIT == "Rate limit exceeded."
ERROR_INVALID_REQUEST == "Invalid request to LLM provider."
ERROR_AUTHENTICATION == "Authentication failed."
ERROR_GENERIC == "An error occurred."

ErrorCategories == { ERROR_EXPIRED_TOKEN, ERROR_CONNECTION, ERROR_TIMEOUT, ERROR_RATE_LIMIT,
                     ERROR_INVALID_REQUEST, ERROR_AUTHENTICATION, ERROR_GENERIC }

\* an exception: type(e).__name__ and str(e)
Exception(type_name, text) == [type |-> type_name, str |-> text]

\* search_results[i] with i < -len(search_results)
IndexError == Exception("IndexError", "list index out of range")
\* the engine refusing a Command(resume=...) that answers nothing
EmptyInputError == Exception("EmptyInputError", "Received empty Command input")
\* what a failing collaborator (LLM provider, database, HTTP client) raises
CollaboratorError == Exception("ConnectError", "connection refused")

\* keyword in text: keyword is a contiguous part of text
Occurs(keyword, text) ==
    \E i \in 1 .. Len(text) - Len(keyword) + 1 :
        SubSeq(text, i, i + Len(keyword) - 1) = keyword

\* str.lower(), for the letters of the texts of the model
LowerChar(c) ==
    CASE c = "A" -> "a" [] c = "B" -> "b" [] c = "C" -> "c" [] c = "E" -> "e"
      [] c = "I" -> "i" [] c = "M" -> "m" [] c = "O" -> "o" [] c = "R" -> "r"
      [] c = "T" -> "t" [] c = "U" -> "u"
      [] OTHER -> c

RECURSIVE Lower(_)
Lower(text) ==
    IF Len(text) = 0 THEN ""
    ELSE LowerChar(SubSeq(text, 1, 1)) \o Lower(SubSeq(text, 2, Len(text)))

_get_error_message_connection_first(exception_raised) ==
    LET error_str == exception_raised.str
        exception_type == exception_raised.type
    IN
    IF \/ \E keyword \in {"ConnectionError", "NetworkError"} :
             Occurs(keyword, exception_type)
       \/ \E keyword \in {"connection", "network", "unreachable", "refused"} :
             Occurs(keyword, error_str)
    THEN ERROR_CONNECTION
    ELSE IF \E keyword \in {"ExpiredToken", "InvalidToken", "expired", "invalid_grant"} :
           Occurs(keyword, error_str)
    THEN ERROR_EXPIRED_TOKEN
    ELSE IF \/ \E keyword \in {"AuthenticationError", "Unauthorized"} :
                   Occurs(keyword, exception_type)
            \/ \E keyword \in {"401", "unauthorized", "forbidden"} : Occurs(keyword, error_str)
    THEN ERROR_AUTHENTICATION
    ELSE IF \/ \E keyword \in {"TimeoutError", "Timeout"} : Occurs(keyword, exception_type)
            \/ Occurs("timeout", Lower(error_str))
    THEN ERROR_TIMEOUT
    ELSE IF \/ Occurs("RateLimitError", exception_type)
            \/ \E keyword \in {"rate limit", "429", "too many requests"} :
                   Occurs(keyword, error_str)
    THEN ERROR_RATE_LIMIT
    ELSE IF \E keyword \in {"ValidationError", "ValueError"} : Occurs(keyword, exception_type)
    THEN ERROR_INVALID_REQUEST
    ELSE ERROR_GENERIC

_get_error_message(exception_raised) ==
    LET error_str == exception_raised.str
        exception_type == exception_raised.type
    IN
    IF \E keyword \in {"ExpiredToken", "InvalidToken", "expired", "invalid_grant"} :
           Occurs(keyword, error_str)
    THEN ERROR_EXPIRED_TOKEN
    ELSE IF \/ \E keyword \in {"AuthenticationError", "Unauthorized"} :
                   Occurs(keyword, exception_type)
            \/ \E keyword \in {"401", "unauthorized", "forbidden"} : Occurs(keyword, error_str)
    THEN ERROR_AUTHENTICATION
    ELSE IF \/ \E keyword \in {"ConnectionError", "NetworkError"} :
                   Occurs(keyword, exception_type)
            \/ \E keyword \in {"connection", "network", "unreachable", "refused"} :
                   Occurs(keyword, error_str)
    THEN ERROR_CONNECTION
    ELSE IF \/ \E keyword \in {"TimeoutError", "Timeout"} : Occurs(keyword, exception_type)
            \/ Occurs("timeout", Lower(error_str))
    THEN ERROR_TIMEOUT
    ELSE IF \/ Occurs("RateLimitError", exception_type)
            \/ \E keyword \in {"rate limit", "429", "too many requests"} :
                   Occurs(keyword, error_str)
    THEN ERROR_RATE_LIMIT
    ELSE IF \E keyword \in {"ValidationError", "ValueError"} : Occurs(keyword, exception_type)
    THEN ERROR_INVALID_REQUEST
    ELSE ERROR_GENERIC

\* the error events of the two exceptions that escape graph.astream
EmptyInputErrorMessage == _get_error_message(EmptyInputError)
IndexErrorMessage == _get_error_message(IndexError)

\* the exceptions _get_error_message is exercised on: type names and texts
\* of exceptions of the engine, the HTTP client, the model provider and the
\* credential library, with texts that match none, one or two of the checks
ExceptionTypeNames ==
    { "IndexError", "EmptyInputError", "ValueError", "ValidationError", "ConnectError",
      "ConnectionError", "ReadTimeout", "TimeoutError", "RateLimitError",
      "AuthenticationError", "RefreshError", "GraphRecursionError" }

ExceptionTexts ==
    { "", "list index out of range", "Received empty Command input", "connection refused",
      "Token has expired", "invalid_grant: Bad Request", "401 Unauthorized",
      "server unreachable", "Request TIMEOUT", "rate limit exceeded",
      "429 too many requests", "expired connection", "timeout on connection",
      "Recursion limit of 50 reached" }

Exceptions == { Exception(type_name, text) : type_name \in ExceptionTypeNames,
                                             text \in ExceptionTexts }

----------------------------------------------------------------------------
(* Routing functions *)

route_after_router_terminate_to_stats(intent) ==
    IF intent = INTENT_TERMINATE THEN NODE_STATS_LOOKUP
    ELSE IF intent = INTENT_STATS_QUERY THEN NODE_STATS_LOOKUP
    ELSE IF intent = INTENT_SCOUTING_REPORT THEN NODE_CONFIRM_SCOUTING
    ELSE NODE_GENERATE_RESPONSE

route_after_router(intent) ==
    IF intent = INTENT_TERMINATE THEN NODE_GENERATE_RESPONSE
    ELSE IF intent = INTENT_STATS_QUERY THEN NODE_STATS_LOOKUP
    ELSE IF intent = INTENT_SCOUTING_REPORT THEN NODE_CONFIRM_SCOUTING
    ELSE NODE_GENERATE_RESPONSE

route_after_confirmation_always_scout(confirmed) == NODE_SCOUT

route_after_confirmation(confirmed) ==
    IF confirmed THEN NODE_SCOUT ELSE NODE_GENERATE_RESPONSE

\* where graph.astream starts: a Command(resume=...) re-enters the pending
\* node, a new message enters at the entry point
turn_entry_always_router(is_resume) == NODE_ROUTER

turn_entry(is_resume) ==
    IF is_resume THEN NODE_CONFIRM_SCOUTING ELSE NODE_ROUTER

----------------------------------------------------------------------------
(* confirm_scouting_report, one execution from its first line.             *)
(* found is the outcome of search_players ("raise" or a result list);      *)
(* answers are the values the interrupt() calls of this execution return,  *)
(* in call order; a call beyond them raises GraphInterrupt.                *)

\* search_results[i] of Python: negative indices count from the end
PyIndexOk(l, i) == i >= -Len(l) /\ i < Len(l)
PyIndex(l, i) == IF i >= 0 THEN l[i + 1] ELSE l[Len(l) + i + 1]

\* search_players raised: a value no result list equals
SearchRaises == << 0 >>

Exit(kind, results, sel, conf, p) ==
    [exit |-> kind, search_results |-> results, user_selection |-> sel,
     user_confirmed |-> conf, selected |-> p]

confirm_scouting_report(player_name, found, answers) ==
    IF player_name = None THEN Exit("no_player_name", << >>, NoValue, NoValue, 0)
    ELSE IF found = SearchRaises THEN Exit("search_failed", << >>, NoValue, NoValue, 0)
    ELSE IF Len(found) = 0 THEN Exit("no_players_found", found, NoValue, NoValue, 0)
    ELSE IF Len(answers) < 1 THEN Exit("interrupt_1", found, NoValue, NoValue, 0)
    ELSE LET user_selection == answers[1] IN
      IF ~isinstance_int(user_selection) \/ user_selection.v >= Len(found)
      THEN Exit("invalid_selection", found, user_selection, NoValue, 0)
      ELSE IF ~PyIndexOk(found, user_selection.v)
      THEN Exit("IndexError", found, user_selection, NoValue, 0)
      ELSE LET selected_player == PyIndex(found, user_selection.v) IN
        IF Len(answers) < 2
        THEN Exit("interrupt_2", found, user_selection, NoValue, selected_player)
        ELSE LET user_confirmed == answers[2] IN
          IF Truthy(user_confirmed)
          THEN Exit("confirmed", found, user_selection, user_confirmed, selected_player)
          ELSE Exit("cancelled", found, user_selection, user_confirmed, selected_player)

\* the outcomes of one search_players call: it raises, or returns a ranked list
SearchOutcomes == SearchResultLists \cup { SearchRaises }

\* the partial state update of each return statement
\* a ConfirmScouting whose confirmed exit binds the player without the league
ConfirmUpdateWithoutLeague(st, r) ==
    CASE r.exit = "no_player_name" ->
           [st EXCEPT !.error = "No player name provided", !.scouting_report_confirmed = FALSE]
      [] r.exit = "search_failed" ->
           [st EXCEPT !.error = "Search failed: " \o CollaboratorError.str,
                      !.scouting_report_confirmed = FALSE]
      [] r.exit = "no_players_found" ->
           [st EXCEPT !.error = "No players found", !.scouting_report_confirmed = FALSE]
      [] r.exit = "invalid_selection" ->
           [st EXCEPT !.error = "Invalid player selection", !.scouting_report_confirmed = FALSE]
      [] r.exit = "confirmed" ->
           [st EXCEPT !.player_id = player_id_of(r.selected),
                      !.player_name = full_name_of(r.selected),
                      !.scouting_report_confirmed = TRUE]
      [] r.exit = "cancelled" ->
           [st EXCEPT !.scouting_report_confirmed = FALSE,
                      !.error = "Scouting report cancelled by user"]
      [] OTHER -> st

\* a ConfirmScouting whose exits before suspend 1 leave scouting_report_confirmed
\* as the state has it
ConfirmUpdateKeepsConfirmed(st, r) ==
    CASE r.exit = "no_player_name" -> [st EXCEPT !.error = "No player name provided"]
      [] r.exit = "search_failed" ->
           [st EXCEPT !.error = "Search failed: " \o CollaboratorError.str]
      [] r.exit = "no_players_found" -> [st EXCEPT !.error = "No players found"]
      [] r.exit = "invalid_selection" ->
           [st EXCEPT !.error = "Invalid player selection", !.scouting_report_confirmed = FALSE]
      [] r.exit = "confirmed" ->
           [st EXCEPT !.player_id = player_id_of(r.selected),
                      !.player_name = full_name_of(r.selected),
                      !.league = league_of(r.selected),
                      !.scouting_report_confirmed = TRUE]
      [] r.exit = "cancelled" ->
           [st EXCEPT !.scouting_report_confirmed = FALSE,
                      !.error = "Scouting report cancelled by user"]
      [] OTHER -> st

ConfirmUpdate(st, r) ==
    CASE r.exit = "no_player_name" ->
           [st EXCEPT !.error = "No player name provided", !.scouting_report_confirmed = FALSE]
      [] r.exit = "search_failed" ->
           [st EXCEPT !.error = "Search failed: " \o CollaboratorError.str,
                      !.scouting_report_confirmed = FALSE]
      [] r.exit = "no_players_found" ->
           [st EXCEPT !.error = "No players found", !.scouting_report_confirmed = FALSE]
      [] r.exit = "invalid_selection" ->
           [st EXCEPT !.error = "Invalid player selection", !.scouting_report_confirmed = FALSE]
      [] r.exit = "confirmed" ->
           [st EXCEPT !.player_id = player_id_of(r.selected),
                      !.player_name = full_name_of(r.selected),
                      !.league = league_of(r.selected),
                      !.scouting_report_confirmed = TRUE]
      [] r.exit = "cancelled" ->
           [st EXCEPT !.scouting_report_confirmed = FALSE,
                      !.error = "Scouting report cancelled by user"]
      [] OTHER -> st

----------------------------------------------------------------------------
(* The session at rest *)

\* no helper function has been called
NoException == [type |-> None, str |-> None]
ErrorMessageAtRest ==
    /\ exception = NoException
    /\ error_message = None

\* the sessions and the requests of the concurrent view
Sessions == {"A", "B"}
Requests == 1 .. MaxRequests

\* no request is being served
SessionsAtRest ==
    /\ requests = << >>
    /\ checkpoint_writes = [s \in Sessions |-> << >>]
    /\ _db_cache = {}
    /\ league_db = 0
    /\ league_db_alone = [s \in Sessions |-> 0]
    /\ executed = << >>
    /\ streams = [s \in Sessions |-> << >>]
    /\ streams_alone = [s \in Sessions |-> << >>]

\* delete_pdf_from_gcs is not being called
GcsAtRest ==
    /\ gcs_path = None
    /\ gcs_io = None
    /\ gcs_blobs = {}
    /\ gcs_calls = << >>
    /\ deleted = NoValue

AuxAtRest == ErrorMessageAtRest /\ SessionsAtRest /\ GcsAtRest

SessionInit ==
    /\ state = InitialState
    /\ chat_input = [user_input |-> NoValue, is_resume |-> FALSE, interrupt_type |-> None]
    /\ running = FALSE
    /\ next_node = END
    /\ pending = NoPending
    /\ resume_values = << >>
    /\ null_resume = NoValue
    /\ steps = 0
    /\ events = << >>
    /\ turn_end = None
    /\ turns = 0
    /\ confirm_locals = NoLocals
    /\ search_calls = 0
    /\ scout_runs = 0
    /\ calls = << >>
    /\ error_texts = {}

Init == SessionInit /\ AuxAtRest

\* a node may start only below the recursion limit of the turn
CanRun(node) == running /\ next_node = node /\ steps < recursion_limit

\* the engine after a node returned: count the step, stream the update
Returned(node) ==
    /\ steps' = steps + 1
    /\ events' = Append(events, Event(node, None))

----------------------------------------------------------------------------
(* event_generator: a turn starts *)

\* is_resume = false: the human message is appended and the graph starts at
\* its entry point; a task left pending by an earlier interrupt is discarded
FreshTurn ==
    /\ ~running
    /\ turns < MaxTurns
    /\ chat_input' = [user_input |-> StrVal(3), is_resume |-> FALSE, interrupt_type |-> None]
    /\ state' = [state EXCEPT !.messages = add_messages(@, << "human" >>)]
    /\ running' = TRUE
    /\ next_node' = turn_entry(FALSE)
    /\ pending' = NoPending
    /\ resume_values' = << >>
    /\ null_resume' = NoValue
    /\ steps' = 0
    /\ events' = << >>
    /\ turn_end' = None
    /\ turns' = turns + 1
    /\ confirm_locals' = NoLocals
    /\ search_calls' = 0
    /\ scout_runs' = 0
    /\ calls' = << >>
    /\ error_texts' = {}
    /\ UNCHANGED aux_vars

\* is_resume = true while a node is suspended: Command(resume=user_input).
\* interrupt_type is carried by ChatInput and read by nothing.
ResumeTurn ==
    /\ ~running
    /\ turns < MaxTurns
    /\ pending.type # None
    /\ \E v \in ResumeValues, it \in InterruptType \cup {None} :
         /\ chat_input' = [user_input |-> v, is_resume |-> TRUE, interrupt_type |-> it]
         /\ null_resume' = v
    /\ running' = TRUE
    /\ next_node' = turn_entry(TRUE)
    /\ steps' = 0
    /\ events' = << >>
    /\ turn_end' = None
    /\ turns' = turns + 1
    /\ confirm_locals' = NoLocals
    /\ calls' = << >>
    /\ error_texts' = {}
    /\ UNCHANGED << state, pending, resume_values, search_calls, scout_runs >>
    /\ UNCHANGED aux_vars

\* is_resume = true while nothing is suspended: no node is left to run; the
\* stream is empty, or the engine rejects the input and the error event is sent
ResumeNothingPending ==
    /\ ~running
    /\ turns < MaxTurns
    /\ pending.type = None
    /\ \E v \in StrayResumeValues, it \in InterruptType \cup {None} :
         chat_input' = [user_input |-> v, is_resume |-> TRUE, interrupt_type |-> it]
    /\ \E rejected \in BOOLEAN :
         /\ events' = IF rejected THEN << Event("error", None) >> ELSE << >>
         /\ turn_end' = IF rejected THEN "error" ELSE "empty"
         /\ error_texts' = IF rejected THEN { EmptyInputErrorMessage } ELSE {}
    /\ steps' = 0
    /\ turns' = turns + 1
    /\ confirm_locals' = NoLocals
    /\ calls' = << >>
    /\ UNCHANGED << state, running, next_node, pending, resume_values, null_resume,
                    search_calls, scout_runs >>
    /\ UNCHANGED aux_vars

----------------------------------------------------------------------------
(* The nodes *)

\* the league the classifier names: the default of RouterOutput.league
RouterLeagues == { "CEBL" }

\* what the classifier returns when it answers: a RouterOutput
RouterOutputs == [ intent : RouterIntentType, player_name : {None, "Aaron"},
                   league : RouterLeagues, query_context : QueryContexts ]

\* the output written for a classifier call that returned none
NoOutput == [intent |-> INTENT_TEXT_RESPONSE, player_name |-> None, league |-> "CEBL",
             query_context |-> None]

router_keeps_intent_on_failure(st, result, output) ==
    IF result = "ok"
    THEN [st EXCEPT
            !.intent = output.intent,
            !.entities = [player_name |-> output.player_name, league |-> output.league,
                          season |-> "2025", query_context |-> output.query_context],
            !.player_name = output.player_name,
            !.league = output.league,
            !.user_query = "query",
            !.routing_iteration = @ + 1]
    ELSE [st EXCEPT
            !.entities = [NoEntities EXCEPT !.query_context = "error"],
            !.error = "Intent classification failed: " \o CollaboratorError.str,
            !.routing_iteration = @ + 1]

\* router: the state after the node's update; result is how the classifier
\* call llm_with_struct.ainvoke ended, output what it returned if it answered
\* a Router that counts only the passes whose classifier call succeeded
router_counts_success_only(st, result, output) ==
    IF result = "ok"
    THEN router_keeps_intent_on_failure(st, result, output)
    ELSE [router_keeps_intent_on_failure(st, result, output) EXCEPT
            !.intent = INTENT_TEXT_RESPONSE,
            !.routing_iteration = st.routing_iteration]

router(st, result, output) ==
    IF result = "ok"
    THEN [st EXCEPT
            !.intent = output.intent,
            !.entities = [player_name |-> output.player_name, league |-> output.league,
                          season |-> "2025", query_context |-> output.query_context],
            !.player_name = output.player_name,
            !.league = output.league,
            !.user_query = "query",
            !.routing_iteration = @ + 1]
    ELSE [st EXCEPT
            !.intent = INTENT_TEXT_RESPONSE,
            !.entities = [NoEntities EXCEPT !.query_context = "error"],
            !.error = "Intent classification failed: " \o CollaboratorError.str,
            !.routing_iteration = @ + 1]

Router ==
    /\ CanRun(NODE_ROUTER)
    /\ \E result \in {"ok", "raises"}, output \in RouterOutputs :
         \* a classifier call that raises has one outcome, whatever the output
         /\ result = "raises" => output = NoOutput
         /\ state' = router(state, result, output)
         /\ calls' = Append(calls, Call(NODE_ROUTER, "classifier", result))
         /\ error_texts' = IF result = "ok" THEN error_texts
                           ELSE error_texts \cup { state'.error }
    /\ next_node' = route_after_router(state'.intent)
    /\ Returned(NODE_ROUTER)
    /\ UNCHANGED << chat_input, running, pending, resume_values, null_resume, turn_end,
                    turns, confirm_locals, search_calls, scout_runs >>
    /\ UNCHANGED aux_vars

\* stats_lookup: the state after the node's update; agent is how the SQL
\* agent's run ended ("raises" also when it returns no structured_response),
\* rerun how the node's own db.run of the agent's SQL ended
stats_lookup(st, agent, rerun) ==
    IF agent = "ok"
    THEN [st EXCEPT !.query_result = IF rerun = "rows" THEN "rows" ELSE "no_rows",
                    !.error = None,
                    !.messages = add_messages(@, << "ai" >>)]
    ELSE [st EXCEPT !.query_result = "error_result",
                    !.error = "Stats lookup failed: " \o CollaboratorError.str,
                    !.messages = add_messages(@, << "ai" >>)]

\* the rows and the chart configuration a query_result of the model carries
data_of(query_result) == IF query_result = "rows" THEN "rows" ELSE "empty"
chart_config_of(query_result) == IF query_result = "rows" THEN "chart" ELSE None

\* the collaborator calls of one run of stats_lookup
stats_lookup_calls(agent, rerun) ==
    << Call(NODE_STATS_LOOKUP, "sql_agent", agent) >> \o
    ( IF agent = "ok"
      THEN << Call(NODE_STATS_LOOKUP, "db.run", IF rerun = "raises" THEN "raises" ELSE "ok") >>
      ELSE << >> )

StatsLookup ==
    /\ CanRun(NODE_STATS_LOOKUP)
    /\ \E agent \in {"ok", "raises"}, rerun \in {"rows", "no_rows", "raises"} :
         /\ state' = stats_lookup(state, agent, rerun)
         /\ calls' = calls \o stats_lookup_calls(agent, rerun)
    /\ error_texts' = IF state'.error = None THEN error_texts
                      ELSE error_texts \cup { state'.error }
    /\ next_node' = NODE_GENERATE_RESPONSE
    /\ Returned(NODE_STATS_LOOKUP)
    /\ UNCHANGED << chat_input, running, pending, resume_values, null_resume, turn_end,
                    turns, confirm_locals, search_calls, scout_runs >>
    /\ UNCHANGED aux_vars

\* the answers the interrupt() calls of the pending node can return: the
\* ones it consumed before, then the value of this turn's Command(resume=...)
Answers == IF null_resume = NoValue THEN resume_values
           ELSE Append(resume_values, null_resume)

ConfirmScouting ==
    /\ CanRun(NODE_CONFIRM_SCOUTING)
    /\ \E found \in SearchOutcomes :
        LET r == confirm_scouting_report(state.player_name, found, Answers) IN
        /\ confirm_locals' = r
        /\ search_calls' = IF state.player_name = None THEN search_calls ELSE search_calls + 1
        /\ null_resume' = NoValue
        /\ calls' = IF state.player_name = None THEN calls
                    ELSE Append(calls, Call(NODE_CONFIRM_SCOUTING, "search_players",
                                            IF r.exit = "search_failed" THEN "raises"
                                            ELSE "ok"))
        /\ CASE r.exit \in {"interrupt_1", "interrupt_2"} ->
                  \* GraphInterrupt: nothing is written to the state, the node
                  \* stays pending with the answers it has consumed
                  /\ pending' = [type |-> IF r.exit = "interrupt_1"
                                          THEN INTERRUPT_PLAYER_SELECTION_SCOUTING
                                          ELSE INTERRUPT_SCOUTING_CONFIRMATION,
                                 search_results |-> IF r.exit = "interrupt_1"
                                                    THEN r.search_results ELSE << >>,
                                 player |-> r.selected]
                  /\ resume_values' = IF r.exit = "interrupt_1" THEN << >>
                                      ELSE << r.user_selection >>
                  /\ events' = Append(events, Event("__interrupt__", pending'.type))
                  /\ steps' = steps + 1
                  /\ running' = FALSE
                  /\ turn_end' = "interrupt"
                  /\ UNCHANGED << state, next_node, error_texts >>
             [] r.exit = "IndexError" ->
                  \* the exception leaves the node and graph.astream; the
                  \* except clause of event_generator sends the error event
                  /\ events' = Append(events, Event("error", None))
                  /\ steps' = steps + 1
                  /\ running' = FALSE
                  /\ turn_end' = "error"
                  /\ error_texts' = error_texts \cup { IndexErrorMessage }
                  /\ UNCHANGED << state, next_node, pending, resume_values >>
             [] OTHER ->
                  /\ state' = ConfirmUpdate(state, r)
                  /\ next_node' = route_after_confirmation(state'.scouting_report_confirmed)
                  /\ pending' = NoPending
                  /\ resume_values' = << >>
                  /\ Returned(NODE_CONFIRM_SCOUTING)
                  /\ error_texts' = IF state'.error = None THEN error_texts
                                    ELSE error_texts \cup { state'.error }
                  /\ UNCHANGED << running, turn_end >>
    /\ UNCHANGED << chat_input, turns, scout_runs >>
    /\ UNCHANGED aux_vars

\* what the player-detail model raises on a payload it cannot validate
ValidationError == Exception("ValidationError", "1 validation error for PlayerDetail")

\* how the collaborators of one run of scout behave: the GET of the player
\* detail, the analysis agent, the construction of the report, the PDF
\* rendering, the upload, the signing of the URL and the local copy.  The
\* removal of the temporary file, guarded by Path.exists, is taken to succeed.
OkRaises == {"ok", "raises"}
ScoutOutcomes == [ fetch : {"ok", "timeout", "http_error", "raises"}, agent : OkRaises,
                   build : OkRaises, render : OkRaises, upload : OkRaises,
                   sign : OkRaises, copy : OkRaises ]

\* a call is made when the calls before it let the node get to it; the
\* outcome of a call that is not made is written "ok"
ScoutIO ==
    { io \in ScoutOutcomes :
        LET agent_made == io.fetch = "ok"
            build_made == agent_made /\ io.agent = "ok"
            render_made == build_made /\ io.build = "ok"
            upload_made == render_made /\ io.render = "ok"
            sign_made == upload_made /\ io.upload = "ok"
            copy_made == upload_made /\ (io.upload = "raises" \/ io.sign = "raises")
        IN
        /\ agent_made \/ io.agent = "ok"
        /\ build_made \/ io.build = "ok"
        /\ render_made \/ io.render = "ok"
        /\ upload_made \/ io.upload = "ok"
        /\ sign_made \/ io.sign = "ok"
        /\ copy_made \/ io.copy = "ok" }

SIGNED_URL == "https://storage.googleapis.com/signed"
LOCAL_URL == "/api/pdf/"

\* the error a failed fetch leaves in the state
fetch_error(fetch) ==
    CASE fetch = "timeout" -> "Request timeout while fetching player data"
      [] fetch = "http_error" -> "HTTP error 500: Internal Server Error"
      [] OTHER -> "Failed to fetch player data: " \o CollaboratorError.str

pdf_pipeline_assumes_copy(io) ==
    LET made(callee, result) == Call(NODE_SCOUT, callee, result) IN
    IF io.render = "raises"
    THEN [pdf_url |-> None, calls |-> << made("generate_pdf", "raises") >>]
    ELSE IF io.upload = "ok" /\ io.sign = "ok"
    THEN [pdf_url |-> SIGNED_URL,
          calls |-> << made("generate_pdf", "ok"), made("upload_pdf_to_gcs", "ok"),
                       made("generate_signed_url", "ok") >>]
    ELSE [pdf_url |-> LOCAL_URL,
          calls |-> << made("generate_pdf", "ok") >> \o
                    ( IF io.upload = "raises"
                      THEN << made("upload_pdf_to_gcs", "raises") >>
                      ELSE << made("upload_pdf_to_gcs", "ok"),
                              made("generate_signed_url", "raises") >> ) \o
                    << made("shutil.copy", io.copy) >>]

\* rendering, then upload and signing, then the local copy if the remote
\* path failed: the pdf_url and the calls made
pdf_pipeline(io) ==
    LET made(callee, result) == Call(NODE_SCOUT, callee, result) IN
    IF io.render = "raises"
    THEN [pdf_url |-> None, calls |-> << made("generate_pdf", "raises") >>]
    ELSE IF io.upload = "ok" /\ io.sign = "ok"
    THEN [pdf_url |-> SIGNED_URL,
          calls |-> << made("generate_pdf", "ok"), made("upload_pdf_to_gcs", "ok"),
                       made("generate_signed_url", "ok") >>]
    ELSE [pdf_url |-> IF io.copy = "ok" THEN LOCAL_URL ELSE None,
          calls |-> << made("generate_pdf", "ok") >> \o
                    ( IF io.upload = "raises"
                      THEN << made("upload_pdf_to_gcs", "raises") >>
                      ELSE << made("upload_pdf_to_gcs", "ok"),
                              made("generate_signed_url", "raises") >> ) \o
                    << made("shutil.copy", io.copy) >>]

\* an early return of scout with an error
scout_failed(st, error, made_calls) ==
    [state |-> [st EXCEPT !.error = error, !.scouting_report = None, !.pdf_url = None,
                          !.messages = add_messages(@, << "ai" >>)],
     calls |-> made_calls]

scout_ignores_fetch_failure(st, io) ==
    LET made(callee, result) == Call(NODE_SCOUT, callee, result)
        fetched == << made("client.get", io.fetch) >>
    IN
    IF st.player_id = None \/ st.league = None
    THEN scout_failed(st, "Missing player_id or league for scouting report generation", << >>)
    ELSE IF io.agent # "ok"
    THEN scout_failed(st, "Scouting analysis generation failed: " \o CollaboratorError.str,
                      fetched \o << made("analysis_agent", io.agent) >>)
    ELSE IF io.build # "ok"
    THEN scout_failed(st, "Failed to build scouting report: " \o ValidationError.str,
                      fetched \o << made("analysis_agent", "ok"),
                                    made("ScoutingReport", io.build) >>)
    ELSE LET pdf == pdf_pipeline(io) IN
         [state |-> [st EXCEPT !.scouting_report = "report", !.pdf_url = pdf.pdf_url,
                               !.error = None, !.messages = add_messages(@, << "ai" >>)],
          calls |-> fetched \o << made("analysis_agent", "ok"), made("ScoutingReport", "ok") >>
                    \o pdf.calls]

\* scout: the state after the node's update and the collaborator calls made
scout(st, io) ==
    LET made(callee, result) == Call(NODE_SCOUT, callee, result)
        fetched == << made("client.get", io.fetch) >>
    IN
    IF st.player_id = None \/ st.league = None
    THEN scout_failed(st, "Missing player_id or league for scouting report generation", << >>)
    ELSE IF io.fetch # "ok"
    THEN scout_failed(st, fetch_error(io.fetch), fetched)
    ELSE IF io.agent # "ok"
    THEN scout_failed(st, "Scouting analysis generation failed: " \o CollaboratorError.str,
                      fetched \o << made("analysis_agent", io.agent) >>)
    ELSE IF io.build # "ok"
    THEN scout_failed(st, "Failed to build scouting report: " \o ValidationError.str,
                      fetched \o << made("analysis_agent", "ok"),
                                    made("ScoutingReport", io.build) >>)
    ELSE LET pdf == pdf_pipeline(io) IN
         [state |-> [st EXCEPT !.scouting_report = "report", !.pdf_url = pdf.pdf_url,
                               !.error = None, !.messages = add_messages(@, << "ai" >>)],
          calls |-> fetched \o << made("analysis_agent", "ok"), made("ScoutingReport", "ok") >>
                    \o pdf.calls]

Scout ==
    /\ CanRun(NODE_SCOUT)
    /\ \E io \in ScoutIO :
         LET r == scout(state, io) IN
         /\ state' = r.state
         /\ calls' = calls \o r.calls
    /\ error_texts' = IF state'.error = None THEN error_texts
                      ELSE error_texts \cup { state'.error }
    /\ scout_runs' = scout_runs + 1
    /\ next_node' = NODE_GENERATE_RESPONSE
    /\ Returned(NODE_SCOUT)
    /\ UNCHANGED << chat_input, running, pending, resume_values, null_resume, turn_end,
                    turns, confirm_locals, search_calls >>
    /\ UNCHANGED aux_vars

HELP_SENTENCE == "I'm here to help with Canada Basketball scouting. How can I assist you?"

\* the apology generate_response builds from the error in the state
apology(error) == "I encountered an error: " \o error \o ". Please try rephrasing your question."

generate_response_result_before_error(st, llm) ==
    IF st.intent = INTENT_STATS_QUERY /\ st.query_result # None
    THEN [response_type |-> RESPONSE_TYPE_QUERY_RESULT, main_response |-> "summary_text"]
    ELSE IF st.error # None
    THEN [response_type |-> RESPONSE_TYPE_TEXT, main_response |-> apology(st.error)]
    ELSE IF st.intent = INTENT_SCOUTING_REPORT /\ st.scouting_report # None
    THEN [response_type |-> RESPONSE_TYPE_SCOUTING_PLAN,
          main_response |-> IF st.pdf_url # None
                            THEN "Scouting report generated. PDF available for download."
                            ELSE "Scouting report generated."]
    ELSE [response_type |-> RESPONSE_TYPE_TEXT,
          main_response |-> IF llm = "ok" THEN "llm_text" ELSE HELP_SENTENCE]

\* generate_response: the response of the turn, first match wins; llm is how
\* the call of the text model ended, made in the last branch only
generate_response(st, llm) ==
    IF st.error # None
    THEN [response_type |-> RESPONSE_TYPE_TEXT, main_response |-> apology(st.error)]
    ELSE IF st.intent = INTENT_STATS_QUERY /\ st.query_result # None
    THEN [response_type |-> RESPONSE_TYPE_QUERY_RESULT, main_response |-> "summary_text"]
    ELSE IF st.intent = INTENT_SCOUTING_REPORT /\ st.scouting_report # None
    THEN [response_type |-> RESPONSE_TYPE_SCOUTING_PLAN,
          main_response |-> IF st.pdf_url # None
                            THEN "Scouting report generated. PDF available for download."
                            ELSE "Scouting report generated."]
    ELSE [response_type |-> RESPONSE_TYPE_TEXT,
          main_response |-> IF llm = "ok" THEN "llm_text" ELSE HELP_SENTENCE]

\* TRUE when generate_response reaches its last branch and calls the text model
calls_llm(st) ==
    /\ st.error = None
    /\ ~(st.intent = INTENT_STATS_QUERY /\ st.query_result # None)
    /\ ~(st.intent = INTENT_SCOUTING_REPORT /\ st.scouting_report # None)

GenerateResponse ==
    /\ CanRun(NODE_GENERATE_RESPONSE)
    /\ \E llm \in OkRaises :
         /\ state' = [state EXCEPT !.response = generate_response(state, llm)]
         /\ calls' = IF calls_llm(state)
                     THEN Append(calls, Call(NODE_GENERATE_RESPONSE, "text_llm", llm))
                     ELSE calls
    /\ error_texts' = IF state.error = None THEN error_texts
                      ELSE error_texts \cup { state'.response.main_response }
    /\ next_node' = END
    /\ running' = FALSE
    /\ turn_end' = END
    /\ Returned(NODE_GENERATE_RESPONSE)
    /\ UNCHANGED << chat_input, pending, resume_values, null_resume, turns,
                    confirm_locals, search_calls, scout_runs >>
    /\ UNCHANGED aux_vars

Next ==
    \/ FreshTurn
    \/ ResumeTurn
    \/ ResumeNothingPending
    \/ Router
    \/ StatsLookup
    \/ ConfirmScouting
    \/ Scout
    \/ GenerateResponse

Spec == Init /\ [][Next]_all_vars

----------------------------------------------------------------------------
(* _get_error_message on its own: the except clause of event_generator    *)
(* hands it whatever exception left graph.astream                          *)

InitErrorMessage ==
    /\ SessionInit
    /\ SessionsAtRest
    /\ GcsAtRest
    /\ exception \in Exceptions
    /\ error_message = None

GetErrorMessage ==
    /\ exception # NoException
    /\ error_message = None
    /\ error_message' = _get_error_message(exception)
    /\ UNCHANGED << vars, sessions_vars, gcs_vars, exception >>

NextErrorMessage == GetErrorMessage

SpecErrorMessage == InitErrorMessage /\ [][NextErrorMessage]_all_vars

----------------------------------------------------------------------------
(* Concurrent requests.  stream_chat starts event_generator for every      *)
(* request as it arrives; graph.astream loads the checkpoint of the        *)
(* thread_id, runs the nodes and writes a checkpoint after each of them.   *)
(* The requests run on one event loop and give way to each other at every  *)
(* await, so their node executions interleave.  Every request here is a    *)
(* fresh stats question or a fresh text question.  The league database and *)
(* _db_cache belong to the process, not to a session.                      *)

\* what the SQL agent hands back as sql_query: a statement that reads or one
\* that writes; or the agent raises
AgentStatements == {"SELECT", "UPDATE"}

\* no rows
NoRows == -1

InitSessions ==
    /\ SessionInit
    /\ ErrorMessageAtRest
    /\ GcsAtRest
    /\ requests \in [Requests -> [session : Sessions, pc : {"arrived"},
                                   intent : {INTENT_STATS_QUERY, INTENT_TEXT_RESPONSE}]]
    /\ checkpoint_writes = [s \in Sessions |-> << >>]
    /\ _db_cache = {}
    /\ league_db = 0
    /\ league_db_alone = [s \in Sessions |-> 0]
    /\ executed = << >>
    /\ streams = [s \in Sessions |-> << >>]
    /\ streams_alone = [s \in Sessions |-> << >>]

\* the engine wrote a checkpoint for the session of request r
CheckpointWritten(r) ==
    checkpoint_writes' = [checkpoint_writes EXCEPT ![requests[r].session] = Append(@, r)]

\* stream_chat: the request is accepted and its turn starts at once, whatever
\* other request of the session is being served
StreamChat(r) ==
    /\ requests[r].pc = "arrived"
    /\ requests' = [requests EXCEPT ![r].pc = NODE_ROUTER]
    /\ CheckpointWritten(r)
    /\ UNCHANGED << _db_cache, league_db, league_db_alone, executed, streams, streams_alone >>

RequestRouter(r) ==
    /\ requests[r].pc = NODE_ROUTER
    /\ requests' = [requests EXCEPT ![r].pc = route_after_router(requests[r].intent)]
    /\ CheckpointWritten(r)
    /\ UNCHANGED << _db_cache, league_db, league_db_alone, executed, streams, streams_alone >>

\* stats_lookup: get_db_connection, the agent, then db.run of the statement
\* the agent returned, whatever statement it is
RequestStatsLookup(r) ==
    LET s == requests[r].session IN
    /\ requests[r].pc = NODE_STATS_LOOKUP
    /\ _db_cache' = _db_cache \cup {"cebl"}
    /\ \/ \E statement \in AgentStatements :
            LET writes == statement # "SELECT" IN
            /\ executed' = Append(executed, [request |-> r, statement |-> statement])
            /\ league_db' = IF writes THEN league_db + 1 ELSE league_db
            /\ league_db_alone' = [league_db_alone EXCEPT ![s] = IF writes THEN @ + 1 ELSE @]
            /\ streams' = [streams EXCEPT ![s] =
                              Append(@, IF writes THEN NoRows ELSE league_db)]
            /\ streams_alone' = [streams_alone EXCEPT ![s] =
                                    Append(@, IF writes THEN NoRows ELSE league_db_alone[s])]
       \/ \* the agent raises: nothing is run
          /\ streams' = [streams EXCEPT ![s] = Append(@, NoRows)]
          /\ streams_alone' = [streams_alone EXCEPT ![s] = Append(@, NoRows)]
          /\ UNCHANGED << executed, league_db, league_db_alone >>
    /\ requests' = [requests EXCEPT ![r].pc = NODE_GENERATE_RESPONSE]
    /\ CheckpointWritten(r)

RequestGenerateResponse(r) ==
    /\ requests[r].pc = NODE_GENERATE_RESPONSE
    /\ requests' = [requests EXCEPT ![r].pc = END]
    /\ CheckpointWritten(r)
    /\ UNCHANGED << _db_cache, league_db, league_db_alone, executed, streams, streams_alone >>

NextSessions ==
    \/ \E r \in Requests : StreamChat(r) /\ UNCHANGED << vars, error_message_vars, gcs_vars >>
    \/ \E r \in Requests : RequestRouter(r) /\ UNCHANGED << vars, error_message_vars, gcs_vars >>
    \/ \E r \in Requests : RequestStatsLookup(r) /\ UNCHANGED << vars, error_message_vars, gcs_vars >>
    \/ \E r \in Requests : RequestGenerateResponse(r) /\ UNCHANGED << vars, error_message_vars, gcs_vars >>

SpecSessions == InitSessions /\ [][NextSessions]_all_vars

----------------------------------------------------------------------------
(* delete_pdf_from_gcs(gcs_path), computed on the characters of the path.  *)

\* str.startswith
StartsWith(text, prefix) ==
    Len(text) >= Len(prefix) /\ SubSeq(text, 1, Len(prefix)) = prefix

\* str.replace(old, ""): every occurrence of old, left to right
RECURSIVE Remove(_, _)
Remove(text, old) ==
    IF Len(text) = 0 THEN ""
    ELSE IF StartsWith(text, old) THEN Remove(SubSeq(text, Len(old) + 1, Len(text)), old)
    ELSE SubSeq(text, 1, 1) \o Remove(SubSeq(text, 2, Len(text)), old)

\* str.split(sep, 1): at most one split, at the first separator
SplitOnce(text, sep) ==
    LET at == { i \in 1 .. Len(text) : SubSeq(text, i, i) = sep } IN
    IF at = {} THEN << text >>
    ELSE LET i == CHOOSE k \in at : \A m \in at : k <= m
         IN  << SubSeq(text, 1, i - 1), SubSeq(text, i + 1, Len(text)) >>

\* the blobs a bucket may hold
Blob(bucket_name, blob_name) == [bucket |-> bucket_name, name |-> blob_name]
StoredBlobs == { Blob("test-bucket", "reports/file.pdf"), Blob("test-bucket", "a.pdf") }

\* the storage calls in the order the function makes them; io says whether
\* _get_gcs_client and blob.delete work; deleting a blob that is not stored
\* fails as well.  A call after a failed one is not made.
gcs_delete(bucket_name, blob_name, io, blobs) ==
    LET stored == Blob(bucket_name, blob_name) \in blobs IN
    IF io.client # "ok"
    THEN [calls |-> << Call("delete_pdf_from_gcs", "_get_gcs_client", "raises") >>,
          blobs |-> blobs]
    ELSE IF io.delete # "ok" \/ ~stored
    THEN [calls |-> << Call("delete_pdf_from_gcs", "_get_gcs_client", "ok"),
                       Call("delete_pdf_from_gcs", "blob.delete", "raises") >>,
          blobs |-> blobs]
    ELSE [calls |-> << Call("delete_pdf_from_gcs", "_get_gcs_client", "ok"),
                       Call("delete_pdf_from_gcs", "blob.delete", "ok") >>,
          blobs |-> blobs \ { Blob(bucket_name, blob_name) }]

\* a delete_pdf_from_gcs that reports success once it has a client
delete_pdf_from_gcs_true_with_client(path, io, blobs) ==
    IF ~StartsWith(path, "gs://")
    THEN [result |-> BoolVal(FALSE), calls |-> << >>, blobs |-> blobs]
    ELSE LET path_parts == SplitOnce(Remove(path, "gs://"), "/") IN
         IF Len(path_parts) # 2
         THEN [result |-> BoolVal(FALSE), calls |-> << >>, blobs |-> blobs]
         ELSE LET done == gcs_delete(path_parts[1], path_parts[2], io, blobs) IN
              [result |-> BoolVal(done.calls[1].result = "ok"),
               calls |-> done.calls, blobs |-> done.blobs]

delete_pdf_from_gcs(path, io, blobs) ==
    IF ~StartsWith(path, "gs://")
    THEN [result |-> BoolVal(FALSE), calls |-> << >>, blobs |-> blobs]
    ELSE LET path_parts == SplitOnce(Remove(path, "gs://"), "/") IN
         IF Len(path_parts) # 2
         THEN [result |-> BoolVal(FALSE), calls |-> << >>, blobs |-> blobs]
         ELSE LET done == gcs_delete(path_parts[1], path_parts[2], io, blobs) IN
              \* the try: True after blob.delete(), False from the except
              [result |-> BoolVal(done.calls[Len(done.calls)].result = "ok"),
               calls |-> done.calls, blobs |-> done.blobs]

GcsPaths ==
    { "", "http://example.com/file.pdf", "test-bucket/a.pdf", "GS://test-bucket/a.pdf",
      "gs:/test-bucket/a.pdf", "/gs://test-bucket/a.pdf",
      "gs://", "gs://bucket-name", "gs://gs://test-bucket",
      "gs://test-bucket/", "gs://test-bucket/a.pdf", "gs://test-bucket/reports/file.pdf",
      "gs://test-bucket/missing.pdf", "gs://other/a.pdf" }

\* a failed _get_gcs_client leaves blob.delete uncalled
GcsIO == { [client |-> "raises", delete |-> "ok"],
           [client |-> "ok", delete |-> "raises"],
           [client |-> "ok", delete |-> "ok"] }

InitGcs ==
    /\ SessionInit
    /\ ErrorMessageAtRest
    /\ SessionsAtRest
    /\ gcs_path \in GcsPaths
    /\ gcs_io \in GcsIO
    /\ gcs_blobs \in SUBSET StoredBlobs
    /\ gcs_calls = << >>
    /\ deleted = NoValue

DeletePdfFromGcs ==
    /\ deleted = NoValue
    /\ LET returned == delete_pdf_from_gcs(gcs_path, gcs_io, gcs_blobs) IN
       /\ deleted' = returned.result
       /\ gcs_calls' = returned.calls
       /\ gcs_blobs' = returned.blobs
    /\ UNCHANGED << vars, error_message_vars, sessions_vars, gcs_path, gcs_io >>

NextGcs == DeletePdfFromGcs

SpecGcs == InitGcs /\ [][NextGcs]_all_vars

----------------------------------------------------------------------------
(* Steps the properties speak about *)

\* a node was executed in this step
NodeRan(node) == running /\ next_node = node /\ steps' = steps + 1

\* v is an index into the candidate list l
InRange(v, l) == v.v >= 0 /\ v.v < Len(l)

HasEvent(node) == \E i \in 1 .. Len(events) : events[i].node = node

\* the messages and the collaborator calls a step adds
NewMessages == SubSeq(state'.messages, Len(state.messages) + 1, Len(state'.messages))
NewCalls == SubSeq(calls', Len(calls) + 1, Len(calls'))
Made(made_calls, callee, result) ==
    \E i \in 1 .. Len(made_calls) : made_calls[i].call = callee /\ made_calls[i].result = result
Failed(made_calls) == \E i \in 1 .. Len(made_calls) : made_calls[i].result # "ok"

\* a fresh turn starts
FreshTurnStarted == ~running /\ running' /\ ~chat_input'.is_resume

RouteTable(intent) ==
    CASE intent = INTENT_STATS_QUERY -> NODE_STATS_LOOKUP
      [] intent = INTENT_SCOUTING_REPORT -> NODE_CONFIRM_SCOUTING
      [] OTHER -> NODE_GENERATE_RESPONSE

----------------------------------------------------------------------------
C2_SearchRunsOnce == search_calls <= 1

(* C3: when suspend 1 is answered with an integer outside 0..n-1 for the n *)
(* candidates of the node, the node returns the invalid-selection error    *)
(* with scouting_report_confirmed false and does not reach suspend 2.      *)
C3_OutOfRangeIsInvalid ==
    [][(/\ NodeRan(NODE_CONFIRM_SCOUTING)
        /\ confirm_locals'.user_selection.t = "int"
        /\ ~InRange(confirm_locals'.user_selection, confirm_locals'.search_results))
       => /\ state'.error = "Invalid player selection"
          /\ ~state'.scouting_report_confirmed
          /\ pending'.type # INTERRUPT_SCOUTING_CONFIRMATION
          /\ turn_end' # "error"]_vars

(* C4: when suspend 1 is answered with a value that is not an integer (a   *)
(* string or a boolean), the node returns the invalid-selection error with *)
(* scouting_report_confirmed false, selects no candidate and does not      *)
(* reach suspend 2.                                                        *)
C4_NonIntegerIsInvalid ==
    [][(/\ NodeRan(NODE_CONFIRM_SCOUTING)
        /\ confirm_locals'.user_selection.t \in {"str", "bool"})
       => /\ state'.error = "Invalid player selection"
          /\ ~state'.scouting_report_confirmed
          /\ confirm_locals'.selected = 0
          /\ pending'.type # INTERRUPT_SCOUTING_CONFIRMATION]_vars

(* C5: scouting_report_confirmed is not true while the session waits at    *)
(* suspend 1 or suspend 2, and once confirm_scouting_report has run in a   *)
(* turn it is true only if both suspends were answered, the second         *)
(* affirmatively.                                                          *)
C5_ConfirmedOnlyAfterBothSuspends ==
    state.scouting_report_confirmed =>
        /\ pending.type = None
        /\ confirm_locals.exit # None => confirm_locals.exit = "confirmed"

C7_ResumeNeedsMatchingType ==
    [][(/\ NodeRan(NODE_CONFIRM_SCOUTING)
        /\ chat_input.is_resume
        /\ chat_input.interrupt_type # pending.type)
       => /\ pending' = pending
          /\ resume_values' = resume_values
          /\ state' = state]_vars

(* C8: a resume payload delivered again after the node has consumed it and *)
(* advanced to suspend 2 does not bring suspend 1 back and does not call   *)
(* search_players again.                                                   *)
C8_DuplicateResumeIsIdempotent ==
    [][(/\ running
        /\ chat_input.is_resume
        /\ pending.type = INTERRUPT_SCOUTING_CONFIRMATION
        /\ resume_values = << chat_input.user_input >>)
       => /\ search_calls' = search_calls
          /\ pending'.type # INTERRUPT_PLAYER_SELECTION_SCOUTING]_vars

(* C9: route_after_router sends stats_query to StatsLookup, scouting_report *)
(* to ConfirmScouting and every other intent, unset included, to           *)
(* GenerateResponse; route_after_confirmation sends to Scout exactly when  *)
(* scouting_report_confirmed is true, otherwise to GenerateResponse.  The  *)
(* engine follows them after Router and after ConfirmScouting.             *)
C9_RoutingIsTotal ==
    /\ [](\A intent \in IntentType \cup {None} :
            route_after_router(intent) = RouteTable(intent))
    /\ [](\A confirmed \in BOOLEAN :
            route_after_confirmation(confirmed) =
                IF confirmed THEN NODE_SCOUT ELSE NODE_GENERATE_RESPONSE)
    /\ [][NodeRan(NODE_ROUTER) => next_node' = RouteTable(state'.intent)]_vars
    /\ [][(NodeRan(NODE_CONFIRM_SCOUTING) /\ running')
          => /\ state'.scouting_report_confirmed => next_node' = NODE_SCOUT
             /\ ~state'.scouting_report_confirmed => next_node' = NODE_GENERATE_RESPONSE]_vars

\* the Router classified the turn as terminate and the engine moved on
C9_Witness ==
    /\ running
    /\ state.intent = INTENT_TERMINATE
    /\ events = << Event(NODE_ROUTER, None) >>
    /\ next_node = NODE_GENERATE_RESPONSE

(* C10: a turn in which a node ran takes at most recursion_limit node      *)
(* executions and ends either with GenerateResponse completed exactly once *)
(* as its last node, or with a new suspend.                                *)
C10_TurnEndsAtResponseOrSuspend ==
    (~running /\ steps > 0) =>
        /\ steps <= recursion_limit
        /\ turn_end \in {END, "interrupt"}
        /\ turn_end = END =>
             /\ events[Len(events)].node = NODE_GENERATE_RESPONSE
             /\ \A i \in 1 .. Len(events) - 1 : events[i].node # NODE_GENERATE_RESPONSE
        /\ turn_end = "interrupt" => events[Len(events)].node = "__interrupt__"

(* C11: the message list only grows.  Every step keeps the messages it    *)
(* found, in their order, as a prefix of the list it leaves; a run of      *)
(* StatsLookup or of Scout adds exactly one assistant message, the start   *)
(* of a fresh turn exactly one human message, every other step none.       *)
C11_MessagesOnlyGrow ==
    [][/\ Len(state'.messages) >= Len(state.messages)
       /\ SubSeq(state'.messages, 1, Len(state.messages)) = state.messages
       /\ \A i, j \in 1 .. Len(state'.messages) :
            state'.messages[i].id = state'.messages[j].id => i = j
       /\ IF NodeRan(NODE_STATS_LOOKUP) \/ NodeRan(NODE_SCOUT)
          THEN Len(NewMessages) = 1 /\ NewMessages[1].type = "ai"
          ELSE IF FreshTurnStarted
          THEN Len(NewMessages) = 1 /\ NewMessages[1].type = "human"
          ELSE NewMessages = << >>]_vars

\* a second fresh turn was started after a turn in which StatsLookup or
\* Scout added its assistant message
C11_Witness ==
    /\ Len(state.messages) >= 3
    /\ \E i \in 1 .. Len(state.messages) - 1 :
         /\ state.messages[i].type = "ai"
         /\ state.messages[i + 1].type = "human"
    /\ running /\ next_node = NODE_ROUTER

(* C12: a Router pass never loses an entity: a league, player name or      *)
(* season that is non-null before the pass is non-null after it, whether   *)
(* the classification succeeded or failed.                                 *)
C12_RouterKeepsEntities ==
    [][NodeRan(NODE_ROUTER)
       => \A field \in {"league", "player_name", "season"} :
            state.entities[field] # None => state'.entities[field] # None]_vars

(* C13: the Router never raises.  Every Router run returns its update and  *)
(* increments routing_iteration; when the classifier call failed the       *)
(* update sets intent to text_response and sets error, and the node that   *)
(* runs next is GenerateResponse.                                          *)
C13_RouterFallsBackOnFailure ==
    [][NodeRan(NODE_ROUTER)
       => /\ running' /\ turn_end' # "error"
          /\ events' = Append(events, Event(NODE_ROUTER, None))
          /\ state'.routing_iteration = state.routing_iteration + 1
          /\ Failed(NewCalls)
             => /\ state'.intent = INTENT_TEXT_RESPONSE
                /\ state'.error # None
                /\ next_node' = NODE_GENERATE_RESPONSE]_vars

\* a turn whose classifier call failed while the session's intent was another
\* one ended with the Router and GenerateResponse as its only nodes
C13_Witness ==
    /\ ~running /\ turn_end = END
    /\ turns >= 2
    /\ Made(calls, "classifier", "raises")
    /\ state.intent = INTENT_TEXT_RESPONSE
    /\ state.query_result # None
    /\ events = << Event(NODE_ROUTER, None), Event(NODE_GENERATE_RESPONSE, None) >>

(* C14: GenerateResponse decides by first match: (1) error set: a text     *)
(* apology built from the error; (2) intent stats_query with a query       *)
(* result: the query_result payload; (3) intent scouting_report with a     *)
(* report: the scouting_report_plan payload; (4) otherwise a text          *)
(* response, the fixed help sentence when the text model fails.  It never  *)
(* raises and leaves exactly one response, ending the turn.                *)
C14_ResponsePriority ==
    [][NodeRan(NODE_GENERATE_RESPONSE)
       => /\ ~running' /\ turn_end' = END
          /\ events' = Append(events, Event(NODE_GENERATE_RESPONSE, None))
          /\ ~HasEvent(NODE_GENERATE_RESPONSE)
          /\ LET response == state'.response IN
             CASE state.error # None ->
                    /\ response.response_type = RESPONSE_TYPE_TEXT
                    /\ response.main_response = apology(state.error)
               [] state.error = None /\ state.intent = INTENT_STATS_QUERY
                  /\ state.query_result # None ->
                    response.response_type = RESPONSE_TYPE_QUERY_RESULT
               [] state.error = None /\ state.intent = INTENT_SCOUTING_REPORT
                  /\ state.scouting_report # None
                  /\ ~(state.intent = INTENT_STATS_QUERY /\ state.query_result # None) ->
                    response.response_type = RESPONSE_TYPE_SCOUTING_PLAN
               [] OTHER ->
                    /\ response.response_type = RESPONSE_TYPE_TEXT
                    /\ Made(NewCalls, "text_llm", "raises")
                       => response.main_response = HELP_SENTENCE]_vars

\* a stats turn whose agent failed: error and query_result are both set and
\* the apology won over the query_result payload
C14_Witness ==
    /\ ~running /\ turn_end = END
    /\ state.error # None
    /\ state.intent = INTENT_STATS_QUERY
    /\ state.query_result # None
    /\ state.response.response_type = RESPONSE_TYPE_TEXT
    /\ state.response.main_response = apology(state.error)

(* C15: an error left by an earlier turn does not survive a turn whose     *)
(* nodes all succeed: when GenerateResponse starts in a turn in which no   *)
(* node set an error, the state holds no error and no apology is emitted.  *)
C15_ErrorClearedBySuccessfulTurn ==
    [][(NodeRan(NODE_GENERATE_RESPONSE) /\ error_texts = {} /\ ~Failed(calls))
       => /\ state.error = None
          /\ error_texts' = {}]_vars

(* C16: StatsLookup never raises and always leaves a query_result and one  *)
(* new assistant message; when the agent or the query execution failed,    *)
(* the re-execution of the SQL by the node included, the query_result has  *)
(* empty rows and no chart configuration and error is set.                 *)
C16_StatsLookupFailureSetsError ==
    [][NodeRan(NODE_STATS_LOOKUP)
       => /\ running' /\ turn_end' # "error"
          /\ state'.query_result # None
          /\ Len(NewMessages) = 1
          /\ Failed(NewCalls)
             => /\ data_of(state'.query_result) = "empty"
                /\ chart_config_of(state'.query_result) = None
                /\ state'.error # None]_vars

(* C17: when the fetch of the player detail fails (timeout, HTTP error or  *)
(* any other exception) Scout makes that one fetch and no other call: it   *)
(* returns with scouting_report and pdf_url null, error set and exactly    *)
(* one assistant message; the analysis agent and the PDF pipeline do not   *)
(* run.                                                                    *)
C17_FetchFailureEndsScout ==
    [][(NodeRan(NODE_SCOUT)
        /\ \E i \in 1 .. Len(NewCalls) :
             NewCalls[i].call = "client.get" /\ NewCalls[i].result # "ok")
       => /\ Len(NewCalls) = 1
          /\ state'.scouting_report = None
          /\ state'.pdf_url = None
          /\ state'.error # None
          /\ Len(NewMessages) = 1 /\ NewMessages[1].type = "ai"
          /\ running' /\ next_node' = NODE_GENERATE_RESPONSE]_vars

\* a confirmed scouting flow whose fetch got an HTTP error ended with the apology
C17_Witness ==
    /\ ~running /\ turn_end = END
    /\ Made(calls, "client.get", "http_error")
    /\ state.scouting_report_confirmed
    /\ state.scouting_report = None
    /\ state.response.main_response = apology(fetch_error("http_error"))

(* C18: once the report is built, Scout returns a non-null scouting_report *)
(* with error null whatever happens to rendering, upload, signing and the  *)
(* local copy; pdf_url is the signed URL when upload and signing           *)
(* succeeded, the local /api/pdf/ path when the remote path failed and     *)
(* the local copy succeeded, and null otherwise.                           *)
C18_PdfFailuresKeepReport ==
    [][(NodeRan(NODE_SCOUT) /\ Made(NewCalls, "ScoutingReport", "ok"))
       => /\ state'.scouting_report # None
          /\ state'.error = None
          /\ running' /\ turn_end' # "error"
          /\ state'.pdf_url =
               IF /\ Made(NewCalls, "upload_pdf_to_gcs", "ok")
                  /\ Made(NewCalls, "generate_signed_url", "ok")
               THEN SIGNED_URL
               ELSE IF /\ \/ Made(NewCalls, "upload_pdf_to_gcs", "raises")
                          \/ Made(NewCalls, "generate_signed_url", "raises")
                       /\ Made(NewCalls, "shutil.copy", "ok")
               THEN LOCAL_URL
               ELSE None]_vars

\* the upload succeeded, the signing failed and the local copy succeeded:
\* the turn ended with the report and the local path
C18_Witness ==
    /\ ~running /\ turn_end = END
    /\ Made(calls, "upload_pdf_to_gcs", "ok")
    /\ Made(calls, "generate_signed_url", "raises")
    /\ Made(calls, "shutil.copy", "ok")
    /\ state.pdf_url = LOCAL_URL
    /\ state.scouting_report # None
    /\ state.response.response_type = RESPONSE_TYPE_SCOUTING_PLAN

(* C19: a turn in which an exception escaped a node still ends with        *)
(* GenerateResponse: the escaped exception is treated as if error were     *)
(* set and the client receives the apology payload.                        *)
C19_EscapedExceptionReachesResponse ==
    (~running /\ confirm_locals.exit = "IndexError")
        => /\ turn_end = END
           /\ HasEvent(NODE_GENERATE_RESPONSE)
           /\ state.error # None

(* C20: every error text carried by an event of a turn is one of the seven *)
(* fixed category strings; no text of an internal exception is in it.      *)
C20_ErrorTextsAreCategories == error_texts \subseteq ErrorCategories

(* C21: _get_error_message is total and first-match.  For every exception  *)
(* it returns one of the seven category strings: the category of the first *)
(* check, in the order expired-credential, authentication-failure,         *)
(* connection-failure, timeout, rate-limited, invalid-request, whose       *)
(* substrings occur in the exception, and the generic category when no     *)
(* check finds one.                                                        *)
C21_ErrorMessageIsFirstMatch ==
    error_message # None =>
        LET in_text(keywords) == \E k \in keywords : Occurs(k, exception.str)
            in_type(keywords) == \E k \in keywords : Occurs(k, exception.type)
            order == << ERROR_EXPIRED_TOKEN, ERROR_AUTHENTICATION, ERROR_CONNECTION,
                        ERROR_TIMEOUT, ERROR_RATE_LIMIT, ERROR_INVALID_REQUEST >>
            matches ==
                << in_text({"ExpiredToken", "InvalidToken", "expired", "invalid_grant"}),
                   in_type({"AuthenticationError", "Unauthorized"})
                       \/ in_text({"401", "unauthorized", "forbidden"}),
                   in_type({"ConnectionError", "NetworkError"})
                       \/ in_text({"connection", "network", "unreachable", "refused"}),
                   in_type({"TimeoutError", "Timeout"})
                       \/ Occurs("timeout", Lower(exception.str)),
                   in_type({"RateLimitError"})
                       \/ in_text({"rate limit", "429", "too many requests"}),
                   in_type({"ValidationError", "ValueError"}) >>
        IN
        /\ error_message \in ErrorCategories
        /\ \A i \in 1 .. 6 :
             (matches[i] /\ \A j \in 1 .. i - 1 : ~matches[j]) => error_message = order[i]
        /\ (\A i \in 1 .. 6 : ~matches[i]) => error_message = ERROR_GENERIC

\* a text in which the substrings of two checks occur got the category of
\* the earlier check
C21_Witness ==
    /\ exception.str = "expired connection"
    /\ exception.type = "TimeoutError"
    /\ error_message = ERROR_EXPIRED_TOKEN

\* request r is between the start of its turn and the end of it
Executing(r) == requests[r].pc \notin {"arrived", END}

(* C22: the turns of one session are strictly sequential.  Two requests of *)
(* the same session are never executing at the same time, and in the       *)
(* session's checkpoint writes the writes of one request are not followed  *)
(* by a write of the first request after a write of the second.            *)
C22_TurnsOfASessionAreSequential ==
    \A r1, r2 \in DOMAIN requests :
        (r1 # r2 /\ requests[r1].session = requests[r2].session)
        => /\ ~(Executing(r1) /\ Executing(r2))
           /\ LET w == checkpoint_writes[requests[r1].session] IN
              ~ \E i, j, k \in 1 .. Len(w) :
                  i < j /\ j < k /\ w[i] = r1 /\ w[j] = r2 /\ w[k] = r1

(* C23: sessions do not interfere.  What the turns of a session stream is  *)
(* what they would stream had the turns of the other sessions never run.   *)
C23_SessionsDoNotInterfere ==
    \A s \in Sessions : streams[s] = streams_alone[s]

(* C24: every statement StatsLookup itself runs against a league database  *)
(* is a SELECT, and the database is never changed.                         *)
C24_OnlySelectIsExecuted ==
    /\ \A i \in 1 .. Len(executed) : executed[i].statement = "SELECT"
    /\ league_db = 0

\* the number of fresh turns of the session: each put one human message
HumanMessages ==
    Cardinality({ i \in 1 .. Len(state.messages) : state.messages[i].type = "human" })

(* C25: routing_iteration never decreases.  A Router pass increases it by  *)
(* exactly 1, whether the classifier call succeeded or failed; no other    *)
(* step, and no step of a resume turn, changes it; when the session is at  *)
(* rest after k fresh turns it equals k.                                   *)
C25_RoutingIterationCountsRouterPasses ==
    /\ [][/\ state'.routing_iteration >= state.routing_iteration
          /\ NodeRan(NODE_ROUTER)
             => state'.routing_iteration = state.routing_iteration + 1
          /\ (~NodeRan(NODE_ROUTER) \/ chat_input'.is_resume)
             => state'.routing_iteration = state.routing_iteration]_vars
    /\ [](~running => state.routing_iteration = HumanMessages)

\* three turns, one of them a resume, one with a failed classifier call: two
\* Router passes
C25_Witness ==
    /\ ~running /\ turns = 3
    /\ state.routing_iteration = 2
    /\ HumanMessages = 2
    /\ chat_input.is_resume = FALSE
    /\ Made(calls, "classifier", "raises")

\* the path names no blob: nothing follows the bucket name
NoBlobPart(path) ==
    ~ \E i \in Len("gs://") + 1 .. Len(path) : SubSeq(path, i, i) = "/"

(* C26: delete_pdf_from_gcs never raises, it returns True or False.  For a *)
(* path that does not start with gs:// or names no blob it returns False   *)
(* and makes no storage call.  It returns False when getting the client or *)
(* the delete call fails, and True only when the delete call succeeded,    *)
(* and then the blob is gone.                                              *)
C26_DeleteReturnsFalseOnAnyFailure ==
    deleted # NoValue
    => /\ deleted \in {BoolVal(TRUE), BoolVal(FALSE)}
       /\ (~StartsWith(gcs_path, "gs://") \/ NoBlobPart(gcs_path))
          => deleted = BoolVal(FALSE) /\ gcs_calls = << >>
       /\ Failed(gcs_calls) => deleted = BoolVal(FALSE)
       /\ deleted = BoolVal(TRUE)
          => /\ Made(gcs_calls, "blob.delete", "ok")
             /\ \A blob \in gcs_blobs : gcs_path # "gs://" \o blob.bucket \o "/" \o blob.name

\* a stored report was deleted
C26_Witness ==
    /\ gcs_path = "gs://test-bucket/reports/file.pdf"
    /\ deleted = BoolVal(TRUE)
    /\ gcs_blobs = { Blob("test-bucket", "a.pdf") }

(* C27: after a valid selection of index i at suspend 1, the player named  *)
(* in the prompt of suspend 2 is the candidate at position i of the list   *)
(* that was emitted at suspend 1, and on an affirmative answer the         *)
(* player_id, player_name and league put into the state are those of the   *)
(* player the prompt named.                                                *)
C27_SelectedCandidateIsBound ==
    [][/\ (/\ NodeRan(NODE_CONFIRM_SCOUTING)
           /\ pending.type = INTERRUPT_PLAYER_SELECTION_SCOUTING
           /\ chat_input.user_input.t = "int"
           /\ InRange(chat_input.user_input, pending.search_results))
          => /\ pending'.type = INTERRUPT_SCOUTING_CONFIRMATION
             /\ pending'.player = PyIndex(pending.search_results, chat_input.user_input.v)
       /\ (/\ NodeRan(NODE_CONFIRM_SCOUTING)
           /\ pending.type = INTERRUPT_SCOUTING_CONFIRMATION
           /\ state'.scouting_report_confirmed)
          => /\ state'.player_id = player_id_of(pending.player)
             /\ state'.player_name = full_name_of(pending.player)
             /\ state'.league = league_of(pending.player)]_vars

\* ConfirmScouting left before suspend 1
LeftBeforeSuspend == confirm_locals'.exit \in {"no_player_name", "search_failed", "no_players_found"}

(* C28: when player_name is absent from the state, when the player search  *)
(* raises, or when the search finds no player, ConfirmScouting emits no    *)
(* suspend: it returns with error set and scouting_report_confirmed false, *)
(* and the next node is GenerateResponse.                                  *)
C28_NoSuspendWithoutCandidates ==
    [][(/\ NodeRan(NODE_CONFIRM_SCOUTING)
        /\ \/ state.player_name = None
           \/ Made(NewCalls, "search_players", "raises")
           \/ (Made(NewCalls, "search_players", "ok") /\ confirm_locals'.search_results = << >>))
       => /\ LeftBeforeSuspend
          /\ events' = Append(events, Event(NODE_CONFIRM_SCOUTING, None))
          /\ pending' = NoPending
          /\ running' /\ turn_end' = None
          /\ state'.error # None
          /\ ~state'.scouting_report_confirmed
          /\ next_node' = NODE_GENERATE_RESPONSE]_vars

\* a fresh scouting request that found no player, in a session whose earlier
\* flow was confirmed, ended without a suspend
C28_Witness ==
    /\ ~running /\ turn_end = END
    /\ ~chat_input.is_resume
    /\ confirm_locals.exit = "no_players_found"
    /\ state.scouting_report # None
    /\ ~state.scouting_report_confirmed
    /\ events = << Event(NODE_ROUTER, None), Event(NODE_CONFIRM_SCOUTING, None),
                   Event(NODE_GENERATE_RESPONSE, None) >>

\* a call the node made in this turn failed
NodeFailed(node) ==
    \E i \in 1 .. Len(calls) : calls[i].node = node /\ calls[i].result # "ok"

(* C29: a structured payload reflects work done in the same turn or flow.  *)
(* When GenerateResponse emits a query_result payload, StatsLookup ran     *)
(* earlier in this turn, none of its calls failed and it produced the      *)
(* query_result; when it emits a scouting_report_plan payload, Scout ran   *)
(* earlier in this turn and produced the report.  A result left by an      *)
(* earlier turn is never presented.                                        *)
C29_PayloadIsFromThisTurn ==
    [][NodeRan(NODE_GENERATE_RESPONSE)
       => /\ state'.response.response_type = RESPONSE_TYPE_QUERY_RESULT
             => /\ HasEvent(NODE_STATS_LOOKUP)
                /\ Made(calls, "sql_agent", "ok")
                /\ ~NodeFailed(NODE_STATS_LOOKUP)
          /\ state'.response.response_type = RESPONSE_TYPE_SCOUTING_PLAN
             => /\ HasEvent(NODE_SCOUT)
                /\ Made(calls, "ScoutingReport", "ok")]_vars

\* ConfirmScouting returned its update in this step
ConfirmReturned ==
    /\ NodeRan(NODE_CONFIRM_SCOUTING)
    /\ events' = Append(events, Event(NODE_CONFIRM_SCOUTING, None))

(* C30: Scout runs only directly after a ConfirmScouting run that returned *)
(* scouting_report_confirmed true with the player_id and the league of the *)
(* selected candidate, both non-empty, so Scout never takes its 'Missing   *)
(* player_id or league' return.  Every return of ConfirmScouting writes    *)
(* scouting_report_confirmed: the next node is Scout exactly when this run *)
(* was confirmed, whatever an earlier flow had left in the state.          *)
C30_ScoutOnlyAfterConfirmation ==
    [][/\ NodeRan(NODE_SCOUT)
          => /\ events # << >>
             /\ events[Len(events)] = Event(NODE_CONFIRM_SCOUTING, None)
             /\ confirm_locals.exit = "confirmed"
             /\ state.scouting_report_confirmed
             /\ state.player_id = player_id_of(confirm_locals.selected)
             /\ state.league = league_of(confirm_locals.selected)
             /\ state.player_id \notin {None, ""} /\ state.league \notin {None, ""}
             /\ NewCalls # << >>
             /\ state'.error # "Missing player_id or league for scouting report generation"
       /\ ConfirmReturned
          => /\ state'.scouting_report_confirmed = (confirm_locals'.exit = "confirmed")
             /\ (next_node' = NODE_SCOUT) = (confirm_locals'.exit = "confirmed")]_vars

\* Scout ran directly after the confirmation of the second candidate and
\* built the report
C30_Witness ==
    /\ ~running /\ turn_end = END
    /\ scout_runs = 1
    /\ chat_input.is_resume
    /\ state.scouting_report # None
    /\ confirm_locals.exit = "confirmed"
    /\ state.player_id = player_id_of(2)
    /\ state.league = "U SPORTS"
    /\ events = << Event(NODE_CONFIRM_SCOUTING, None), Event(NODE_SCOUT, None),
                   Event(NODE_GENERATE_RESPONSE, None) >>

====
